---- MODULE Spec2Model ----
(***************************************************************************)
(* Modele de la bibliotheque de livres (biblio.bibli.simple_bibli,         *)
(* biblio.scrap.bibli) et du robot bibli_scrap (biblio/scrap.py,           *)
(* Classes.py).                                                            *)
(*                                                                         *)
(* Un nom de fichier est un enregistrement [stem, ext]; le stem est la     *)
(* suite de ses morceaux separes par "_" ("d_1" = <<"d", "1">>), de sorte  *)
(* que f"{stem}_{i}" est Append(stem, ToString(i)).  Un chemin est         *)
(* [rep, nom]: rep = "bib" pour le repertoire de la bibliotheque, "ext"    *)
(* pour un fichier situe ailleurs.  Un Livre est un objet Python sans      *)
(* __eq__ ni __hash__: il est identifie par son identite (champ id).       *)
(***************************************************************************)
EXTENDS Integers, Sequences, FiniteSets, TLC

\* ---------------------------------------------------------------- bornes
MaxLivres == 1
MaxFichiers == 3
MaxParChemin == 2
MaxProfondeur == 2
MaxNb == 1
MaxGet == 2

\* ------------------------------------------------------------- constantes
None == "None"

Nom(stem, ext) == [stem |-> stem, ext |-> ext]

Chemin(rep, nom) == [rep |-> rep, nom |-> nom]

d_pdf == Nom(<<"d">>, "pdf")

d_1_pdf == Nom(<<"d", "1">>, "pdf")

e_epub == Nom(<<"e">>, "epub")

notes_txt == Nom(<<"notes">>, "txt")

\* Un fichier sans extension
LISEZMOI == Nom(<<"LISEZMOI">>, "")

\* ------------------------------------------------------------ livre.py
\* Declarations de classes concretes de Livre, dans l'ordre du module.
Declarations ==
    << [cls |-> "Pdf", suffix |-> "pdf", mime_type |-> "application/pdf", abstrait |-> FALSE],
       [cls |-> "Epub", suffix |-> "epub", mime_type |-> "application/epub+zip", abstrait |-> FALSE] >>

\* Livre.__init_subclass__: enregistre cls dans TYPES_MIME sauf si abstraite.
init_subclass(types_mime, decl) ==
    IF decl.abstrait
    THEN types_mime
    ELSE [m \in (DOMAIN types_mime) \cup {decl.mime_type} |->
            IF m = decl.mime_type THEN decl.cls ELSE types_mime[m]]

RECURSIVE enregistrer(_, _)
enregistrer(types_mime, decls) ==
    IF decls = <<>>
    THEN types_mime
    ELSE enregistrer(init_subclass(types_mime, Head(decls)), Tail(decls))

\* Livre.TYPES_MIME apres l'import du module.
TYPES_MIME == enregistrer([m \in {} |-> None], Declarations)

\* Variante fautive: None au lieu de l'exception (comme dict.get)
depuis_mime_type_sans_erreur(mime_type) ==
    IF mime_type \notin DOMAIN TYPES_MIME
    THEN None
    ELSE TYPES_MIME[mime_type]

\* Livre.depuis_mime_type: la classe enregistree, ou l'exception levee
depuis_mime_type(mime_type) ==
    IF mime_type \notin DOMAIN TYPES_MIME
    THEN "NotSupportedMimeError"
    ELSE TYPES_MIME[mime_type]

\* Livre.__init__; l'identite de l'objet est (ressource, id): id distingue les
\* objets construits sur le meme chemin
Livre(id, ressource, type) == [id |-> id, ressource |-> ressource, type |-> type]

\* Identite d'un nouvel objet sur le chemin p, distinct des objets de O
nouvel_id(O, p) ==
    CHOOSE k \in 1..(Cardinality(O) + 1) :
        /\ \A o \in O : o.ressource = p => o.id # k
        /\ \A j \in 1..(k - 1) : \E o \in O : o.ressource = p /\ o.id = j

\* ------------------------------------------------------------- bibli.py
\* mimetypes.guess_type(file)[0], tel que livres_gen l'utilise
guess_type(nom) ==
    CASE nom.ext = "pdf" -> "application/pdf"
      [] nom.ext = "epub" -> "application/epub+zip"
      [] nom.ext = "txt" -> "text/plain"
      [] nom.ext = "html" -> "text/html"
      [] nom.ext = "png" -> "image/png"
      [] OTHER -> None

\* Contenu du repertoire de la bibliotheque: set(self.path.iterdir())
iterdir(D) == {p \in D : p.rep = "bib"}

\* Le chemin de la bibliotheque (self.path) quand il designe un fichier
\* ordinaire: il figure alors lui-meme parmi les fichiers du disque
PathBib == Chemin("racine", Nom(<<"bib">>, ""))

\* self.path.is_dir()
est_repertoire(D) == PathBib \notin D

\* simple_bibli.__init__: p.mkdir(parents=True, exist_ok=True) si p n'existe
\* pas; genre du chemin apres ces deux lignes
mkdir_si_absent(genre) == IF genre = "absent" THEN "repertoire" ELSE genre

\* RealPath.__init__: ValueError si le chemin n'existe pas
RealPath(genre) == IF genre = "absent" THEN "ValueError" ELSE None

\* Ecriture d'un fichier (write_bytes, copy2): cree ou remplace
ecrire(D, p) == D \cup {p}

\* Path.unlink
unlink(D, p) == D \ {p}

\* simple_bibli.ajouter: resultat [livres, disque, erreur]
ajouter(livre, L, D, max) ==
    LET cible == Chemin("bib", livre.ressource.nom)
    IN  IF Cardinality(L) > max
        THEN [livres |-> L, disque |-> D, erreur |-> None]
        ELSE IF cible \notin D
             THEN IF livre.ressource \notin D
                  THEN [livres |-> L, disque |-> D, erreur |-> "FileNotFoundError"]
                  ELSE IF ~est_repertoire(D)
                  THEN [livres |-> L, disque |-> D, erreur |-> "NotADirectoryError"]
                  ELSE [livres |-> L \cup {livre},
                        disque |-> ecrire(D, cible),
                        erreur |-> None]
             ELSE [livres |-> L \cup {livre}, disque |-> D, erreur |-> None]

\* simple_bibli.update_livres sur la suite des fichiers rendus par glob("*"):
\* resultat [livres, erreur].  Le generateur livres_gen saute les fichiers dont
\* le type n'est pas devine et appelle Livre.depuis_mime_type pour les autres,
\* avant que le corps de la boucle ne compare len(self) a max_livres.
RECURSIVE update_livres(_, _, _, _)
update_livres(fichiers, L, D, max) ==
    IF fichiers = <<>>
    THEN [livres |-> L, erreur |-> None]
    ELSE IF guess_type(Head(fichiers).nom) = None
         THEN update_livres(Tail(fichiers), L, D, max)
         ELSE IF depuis_mime_type(guess_type(Head(fichiers).nom)) = "NotSupportedMimeError"
              THEN [livres |-> L, erreur |-> "NotSupportedMimeError"]
              ELSE IF Cardinality(L) > max
                   THEN [livres |-> L, erreur |-> None]
                   ELSE update_livres(
                          Tail(fichiers),
                          ajouter(Livre(1, Head(fichiers),
                                        depuis_mime_type(guess_type(Head(fichiers).nom))),
                                  L, D, max).livres,
                          D, max)

\* Valeurs de dc:creator enregistrees dans le fichier, dans l'ordre du fichier
creators(nom) ==
    CASE nom = d_pdf -> <<"Hugo", "Zola", "Hugo">>
      [] nom = e_epub -> <<"Zola", "Zola">>
      [] OTHER -> <<>>

\* list(dict.fromkeys(result)): supprime les doublons en conservant l'ordre
RECURSIVE sans_doublons(_, _)
sans_doublons(vus, reste) ==
    IF reste = <<>>
    THEN vus
    ELSE sans_doublons(
           IF \E i \in 1..Len(vus) : vus[i] = Head(reste) THEN vus ELSE Append(vus, Head(reste)),
           Tail(reste))

\* Pdf.auteurs (sans doublons) et Epub.auteurs (tels quels)
auteurs(livre) ==
    IF livre.type = "Pdf"
    THEN sans_doublons(<<>>, creators(livre.ressource.nom))
    ELSE creators(livre.ressource.nom)

\* Variante fautive: le groupe de l'auteur est remplace au lieu d'etre complete
add_auteur_ecrase(groupes, auteur, livre) ==
    [a \in (DOMAIN groupes) \cup {auteur} |->
        IF a = auteur THEN {livre} ELSE groupes[a]]

\* auteurs[auteur].add(livre) sur un defaultdict(set)
add_auteur(groupes, auteur, livre) ==
    [a \in (DOMAIN groupes) \cup {auteur} |->
        IF a = auteur
        THEN (IF a \in DOMAIN groupes THEN groupes[a] ELSE {}) \cup {livre}
        ELSE groupes[a]]

\* boucle interne de get_auteurs: for auteur in livre.auteurs()
RECURSIVE boucle_auteurs(_, _, _)
boucle_auteurs(groupes, livre, liste) ==
    IF liste = <<>>
    THEN groupes
    ELSE boucle_auteurs(add_auteur(groupes, Head(liste), livre), livre, Tail(liste))

\* Etat du chargement paresseux des metadonnees: already_init est l'ensemble
\* des livres dont l'attribut already_init vaut True, metadata l'ensemble de
\* ceux dont les attributs de metadonnees (_metadata, tree) sont definis
MetaInit == [already_init |-> {}, metadata |-> {}]

\* Pdf._init_meta / Epub._init_meta: le drapeau est leve avant la lecture du
\* fichier; pikepdf.Pdf.open leve FileNotFoundError et Epub._init_meta leve
\* ValueError quand le fichier n'existe pas.  Resultat [meta, erreur]
init_meta(m, livre, D) ==
    LET leve == [m EXCEPT !.already_init = @ \cup {livre}]
    IN  IF livre.ressource \notin D
        THEN [meta |-> leve,
              erreur |-> IF livre.type = "Pdf" THEN "FileNotFoundError" ELSE "ValueError"]
        ELSE [meta |-> [leve EXCEPT !.metadata = @ \cup {livre}], erreur |-> None]

\* Le decorateur besoin_metadata: _init_meta n'est appelee que si le drapeau
\* est baisse
besoin_metadata(m, livre, D) ==
    IF livre \notin m.already_init
    THEN init_meta(m, livre, D)
    ELSE [meta |-> m, erreur |-> None]

\* livre.auteurs() par from_metadata / tree_xpath, decorees par
\* besoin_metadata: la lecture d'un attribut de metadonnees qui n'a jamais ete
\* defini leve AttributeError.  Resultat [meta, auteurs, erreur]
appel_auteurs(m, livre, D) ==
    LET b == besoin_metadata(m, livre, D)
    IN  IF b.erreur # None
        THEN [meta |-> b.meta, auteurs |-> <<>>, erreur |-> b.erreur]
        ELSE IF livre \notin b.meta.metadata
        THEN [meta |-> b.meta, auteurs |-> <<>>, erreur |-> "AttributeError"]
        ELSE [meta |-> b.meta, auteurs |-> auteurs(livre), erreur |-> None]

\* boucle externe de get_auteurs: for livre in self, dans l'ordre ou
\* l'ensemble rend ses elements; une exception de livre.auteurs() interrompt
\* la boucle.  Resultat [auteurs, erreur, meta]
RECURSIVE boucle_livres(_, _, _, _)
boucle_livres(groupes, ordre, D, m) ==
    IF ordre = <<>>
    THEN [auteurs |-> groupes, erreur |-> None, meta |-> m]
    ELSE LET livre == Head(ordre)
             a == appel_auteurs(m, livre, D)
         IN  IF a.erreur # None
             THEN [auteurs |-> [x \in {} |-> {}], erreur |-> a.erreur, meta |-> a.meta]
             ELSE boucle_livres(boucle_auteurs(groupes, livre, a.auteurs),
                                Tail(ordre), D, a.meta)

\* simple_bibli.get_auteurs: resultat [auteurs, erreur, meta]
get_auteurs(ordre, D, m) == boucle_livres([a \in {} |-> {}], ordre, D, m)

\* Variante fautive: le fichier est supprime meme si le livre n'est pas membre
discard_sans_appartenance(livre, remove_from_disk, L, D) ==
    [livres |-> L \ {livre},
     disque |-> IF remove_from_disk /\ livre.ressource \in D
                THEN unlink(D, livre.ressource)
                ELSE D]

\* simple_bibli.discard: resultat [livres, disque]
discard(livre, remove_from_disk, L, D) ==
    [livres |-> L \ {livre},
     disque |-> IF remove_from_disk /\ livre \in L /\ livre.ressource \in D
                THEN unlink(D, livre.ressource)
                ELSE D]

\* ------------------------------------------------------------- scrap.py
\* Path.with_stem
with_stem(path, stem) == Chemin(path.rep, Nom(stem, path.nom.ext))

\* boucle while de find_unique_path
RECURSIVE boucle_unique(_, _, _, _)
boucle_unique(path, stem, i, filenames) ==
    IF path \in filenames
    THEN boucle_unique(with_stem(path, Append(stem, ToString(i))), stem, i + 1, filenames)
    ELSE path

\* Variante fautive: le suffixe s'ajoute au stem deja suffixe
RECURSIVE boucle_cumul(_, _, _)
boucle_cumul(path, i, filenames) ==
    IF path \in filenames
    THEN boucle_cumul(with_stem(path, Append(path.nom.stem, ToString(i))), i + 1, filenames)
    ELSE path

find_unique_path_cumul(path, filenames) == boucle_cumul(path, 1, filenames)

\* Variante fautive: un seul essai, sans boucle
find_unique_path_un_essai(path, filenames) ==
    IF path \in filenames
    THEN with_stem(path, Append(path.nom.stem, "1"))
    ELSE path

\* bibli.find_unique_path
find_unique_path(path, filenames) ==
    boucle_unique(path, path.nom.stem, 1, filenames)

\* ------------------------------------------------------------- le web
\* Une URL absolue: schema, domaine de premier niveau de l'hote, segments du chemin.
Url(scheme, tld, chemin) == [scheme |-> scheme, tld |-> tld, chemin |-> chemin]

seg(s) == Nom(<<s>>, "")

uA == Url("https", "org", <<seg("A")>>)

uB == Url("https", "org", <<seg("B")>>)

uC == Url("https", "org", <<seg("C")>>)

uD == Url("https", "org", <<seg("1"), d_pdf>>)

uD2 == Url("https", "org", <<seg("2"), d_pdf>>)

uE == Url("https", "org", <<e_epub>>)

uM == Url("mailto", "org", <<seg("x")>>)

uJ == Url("javascript", "", <<seg("void(0)")>>)

uT == Url("https", "org", <<seg("t")>>)

uN == Url("http", "org", <<seg("n")>>)

Pages == {uA, uB, uC}

\* Une ancre <a>: avec ou sans attribut href
Ancre(href) == [a_href |-> TRUE, href |-> href]

SansHref == [a_href |-> FALSE]

\* Ancres <a> de chaque page, dans l'ordre du document.
\* href relatif: [rel |-> segment]; href absolu: une URL.
Ancres(u) ==
    CASE u = uA -> << Ancre(uB), Ancre(uD), SansHref, Ancre(uM), Ancre(uJ),
                      Ancre(uT), Ancre(uD2), Ancre(uN) >>
      [] u = uB -> << Ancre(uA), Ancre([rel |-> e_epub]) >>
      [] u = uC -> << Ancre(uB) >>
      [] OTHER -> << >>

\* En-tete Content-Type de la reponse a HEAD (None: en-tete absent)
ContentType(u) ==
    CASE u \in {uD, uD2} -> "application/pdf"
      [] u = uE -> "application/epub+zip"
      [] u \in {uA, uB, uC} -> "text/html"
      [] u = uT -> "application/pdf; charset=binary"
      [] OTHER -> None

TypesContenu ==
    {"application/pdf", "application/epub+zip", "text/html",
     "application/pdf; charset=binary", None}

\* Issues possibles d'une requete faite avec timeout=5
Statuts == {"ok", "http_error", "timeout", "connexion"}

\* Issues possibles d'une requete faite sans timeout (get_Html de Classes.py)
StatutsSansDelai == {"ok", "http_error", "connexion"}

\* urllib.parse.urljoin(url, a["href"])
urljoin(base, href) ==
    IF "scheme" \in DOMAIN href
    THEN href
    ELSE [base EXCEPT !.chemin = SubSeq(base.chemin, 1, Len(base.chemin) - 1) \o <<href.rel>>]

\* soup.find_all("a", href=True) puis map(join_url, ...)
RECURSIVE liens_de(_, _)
liens_de(base, ancres) ==
    IF ancres = <<>>
    THEN <<>>
    ELSE IF ~Head(ancres).a_href
         THEN liens_de(base, Tail(ancres))
         ELSE <<urljoin(base, Head(ancres).href)>> \o liens_de(base, Tail(ancres))

\* Variante fautive: toute URL est acceptee
check_http_url_tout(u) == u.scheme \in {"http", "https", "mailto", "javascript"}

\* bibli.check_http_url
check_http_url(u) == u.scheme \in {"http", "https"}

\* Variante fautive: l'en-tete est rendu sans consulter TYPES_MIME
get_mime_type_from_url_sans_filtre(content_type) == content_type

\* bibli.get_mime_type_from_url, sur l'en-tete Content-Type recu
get_mime_type_from_url(content_type) ==
    IF content_type \notin DOMAIN TYPES_MIME THEN None ELSE content_type

\* Variante fautive: le premier composant du chemin de l'URL
nom_fichier_premier(u) == IF u.chemin = <<>> THEN Nom(<<>>, "") ELSE u.chemin[1]

\* Path(urlparse(url).path).name
nom_fichier(u) == IF u.chemin = <<>> THEN Nom(<<>>, "") ELSE u.chemin[Len(u.chemin)]

\* bibli_scrap.domaine_site: None (donc AttributeError sur .group()) sans tld connu
domaine_site(u) == IF u.tld \in {"org", "fr", "com", "net"} THEN u.tld ELSE None

\* "mot" in href
contient(u, mot) == \E i \in 1..Len(u.chemin) : u.chemin[i].ext = mot

\* filtre de bibli_scrap.get_lien_url: href ^https:// contenant "pdf" ou "epub"
lien_retenu(ancre) ==
    /\ ancre.a_href
    /\ "scheme" \in DOMAIN ancre.href
    /\ ancre.href.scheme = "https"
    /\ (contient(ancre.href, "pdf") \/ contient(ancre.href, "epub"))

\* bibli_scrap.add_url
add_url(liste, visites, lien) ==
    IF (\A i \in 1..Len(liste) : liste[i] # lien) /\ (\A i \in 1..Len(visites) : visites[i] # lien)
    THEN Append(liste, lien)
    ELSE liste

\* boucle for de get_lien_url sur les ancres de la page
RECURSIVE ajouter_liens(_, _, _)
ajouter_liens(liste, visites, ancres) ==
    IF ancres = <<>>
    THEN liste
    ELSE ajouter_liens(
           IF lien_retenu(Head(ancres))
           THEN add_url(liste, visites, Head(ancres).href)
           ELSE liste,
           visites, Tail(ancres))

\* ---------------------------------------------------------------- etat
VARIABLES
    classe,       \* classe de l'objet construit: "bibli" ou "bibli_scrap"
    disque,       \* systeme de fichiers: l'ensemble des chemins des fichiers existants
    livres,       \* simple_bibli (self): l'ensemble des Livre de la bibliotheque
    max_livres,   \* simple_bibli.max_livres
    url,          \* bibli_scrap.url
    url_visiter,  \* bibli_scrap.url_visiter
    profondeur,   \* profondeur demandee pour le parcours (bibli_scrap.profondeur)
    nbmax,        \* nombre maximal de documents demande (bibli_scrap.nbmax)
    variante,     \* "scrap": biblio/scrap.py, "Classes": Classes.py
    pc,           \* position du programme
    a_faire,      \* liens que le generateur livre_generator_from_url doit encore rendre
    erreur,       \* exception sortie du dernier appel (None: aucune)
    op,           \* derniere operation executee
    hist_fup,     \* appels consecutifs a find_unique_path: [cand, res, avant, ecrit]
    nb_get,       \* nombre de GET de chaque page pendant le parcours en cours (sature a MaxGet)
    nb_emis,      \* documents telecharges et passes a ajouter par alimenter
    statut_page,  \* issue du GET de la page du dernier alimenter
    sonde,        \* derniere interrogation du type MIME: [fait, content_type, mime_type]
    path_avant,   \* genre du chemin path avant l'appel du constructeur (None ensuite)
    retour,       \* valeur rendue par le dernier appel de get_auteurs ou depuis_mime_type
    meta,         \* chargement paresseux des metadonnees des livres: [already_init, metadata]
    trace,        \* requetes, ecriture et ajout faits par le dernier alimenter_fichier_url
    reponse       \* statut de la reponse au GET du dernier alimenter_fichier_url (None: pas de GET)

vars ==
    << classe, disque, livres, max_livres, url, url_visiter, profondeur, nbmax, variante,
       pc, a_faire, erreur, op, hist_fup, nb_get, nb_emis, statut_page, sonde,
       path_avant, retour, meta, trace, reponse >>

v_bibli == << disque, livres, max_livres >>

v_scrap == << classe, url, url_visiter, profondeur, nbmax, variante >>

v_alim == << a_faire, nb_emis, statut_page >>

NoChemin == Chemin("aucun", Nom(<<>>, ""))

NoLivre == Livre(0, NoChemin, None)

NoUrl == Url(None, None, <<>>)

\* Un evenement de alimenter_fichier_url: requests.head, requests.get,
\* write_bytes ou ajouter, avec l'URL, le chemin ou le livre concerne
Ev(ev, u, path, livre) == [ev |-> ev, url |-> u, path |-> path, livre |-> livre]

Op(nom, livre, flag) == [nom |-> nom, livre |-> livre, flag |-> flag]

\* Repertoires possibles a l'ouverture de la bibliotheque
RepsInit ==
    {{}, {d_pdf}, {d_pdf, d_1_pdf}, {notes_txt}, {d_pdf, notes_txt}, {LISEZMOI, notes_txt}}

\* Fichiers situes hors de la bibliotheque
CheminsExt == {Chemin("ext", e_epub)}

\* Chemins sur lesquels l'appelant construit un Livre
CheminsClient == CheminsExt \cup {Chemin("bib", d_pdf)}

\* Candidats passes a find_unique_path
Candidats == {Chemin("bib", d_pdf), Chemin("bib", e_epub)}

Ordres(S) ==
    {s \in [1..Cardinality(S) -> S] :
        \A i, j \in 1..Cardinality(S) : i # j => s[i] # s[j]}

DisqueInit(noms) == {Chemin("bib", n) : n \in noms} \cup CheminsExt

\* Ce que path peut designer avant la construction de la bibliotheque
GenresAvant == {"absent", "repertoire", "fichier"}

\* Fichiers du disque quand path a le genre donne et que le repertoire, s'il
\* existe, contient les fichiers noms
DisqueAvant(genre, noms) ==
    CASE genre = "repertoire" -> DisqueInit(noms)
      [] genre = "fichier" -> {PathBib} \cup CheminsExt
      [] OTHER -> CheminsExt

Zero == [p \in Pages |-> 0]

SondeInit == [fait |-> FALSE, content_type |-> None, mime_type |-> None]

\* Valeur rendue: le dictionnaire de get_auteurs, ou le type MIME demande et
\* la classe rendue par depuis_mime_type
Retour(dict, mime_type, cls) == [auteurs |-> dict, mime_type |-> mime_type, cls |-> cls]

RetourInit == Retour([a \in {} |-> {}], None, None)

Plus1(n) == IF n < MaxGet THEN n + 1 ELSE MaxGet

\* Limites demandees pour le parcours.  bibli_scrap les recoit a la
\* construction; bibli.alimenter ne les recoit ni ne les lit, et seules leurs
\* valeurs extremes y sont distinguees (les deux plus petites ensemble, les
\* deux plus grandes ensemble).
Profondeurs(cls) == IF cls = "bibli_scrap" THEN 0..MaxProfondeur ELSE {0, MaxProfondeur}

NbMax(cls) == IF cls = "bibli_scrap" THEN 1..MaxNb ELSE {1, MaxNb}

\* Etat apres la construction de l'objet.
\* bibli(path, max_livres): simple_bibli.__init__ sur un chemin absent (mkdir),
\* un repertoire existant ou un fichier ordinaire (glob("*") ne rend alors
\* rien), RealPath et update_livres compris; quand le constructeur leve une
\* exception, aucun objet n'est construit (livres reste vide, voir Construit).  bibli_scrap(url, profondeur, nbmax): son __init__
\* n'appelle pas simple_bibli.__init__; l'objet n'a ni path ni max_livres et
\* l'ensemble reste vide.
Init ==
    /\ classe \in {"bibli", "bibli_scrap"}
    /\ IF classe = "bibli"
       THEN /\ \E genre \in GenresAvant, noms \in RepsInit, m \in 1..MaxLivres :
                 /\ genre # "repertoire" => noms = {}
                 /\ path_avant = genre
                 /\ disque = DisqueAvant(mkdir_si_absent(genre), noms)
                 /\ max_livres = m
                 /\ \E ordre \in Ordres(iterdir(disque)) :
                      LET r == update_livres(ordre, {}, disque, m)
                      IN  IF RealPath(mkdir_si_absent(genre)) # None
                          THEN /\ erreur = RealPath(mkdir_si_absent(genre))
                               /\ livres = {}
                          ELSE IF r.erreur # None
                          THEN /\ erreur = r.erreur
                               /\ livres = {}
                          ELSE /\ erreur = None
                               /\ livres = r.livres
            /\ variante = "scrap"
       ELSE /\ disque = DisqueInit({})
            /\ max_livres = 0
            /\ livres = {}
            /\ variante \in {"scrap", "Classes"}
            /\ path_avant = None
            /\ erreur = None
    /\ url = <<uA>>
    /\ url_visiter = <<>>
    /\ profondeur \in Profondeurs(classe)
    /\ nbmax \in NbMax(classe)
    /\ classe = "bibli" => nbmax = (IF profondeur = 0 THEN 1 ELSE MaxNb)
    /\ pc = "repos"
    /\ a_faire = <<>>
    /\ op = Op("init", NoLivre, FALSE)
    /\ hist_fup = <<>>
    /\ nb_get = Zero
    /\ nb_emis = 0
    /\ statut_page = None
    /\ sonde = SondeInit
    /\ retour = RetourInit
    /\ meta = MetaInit
    /\ trace = <<>>
    /\ reponse = None

\* ------------------------------------------------- operations de la bibliotheque
\* Les variables d'observation ne decrivent que la derniere operation
Oubli ==
    /\ a_faire' = <<>>
    /\ nb_emis' = 0
    /\ statut_page' = None
    /\ nb_get' = Zero
    /\ hist_fup' = <<>>
    /\ sonde' = SondeInit
    /\ path_avant' = None
    /\ retour' = RetourInit
    /\ trace' = <<>>
    /\ reponse' = None

\* Les Livre que l'appelant peut passer: un membre de la bibliotheque, l'objet
\* du discard precedent, ou un nouvel objet construit sur un chemin
Connus == livres \cup (IF op.nom = "discard" THEN {op.livre} ELSE {})

\* Le constructeur a rendu un objet
Construit == ~(op.nom = "init" /\ erreur # None)

\* Les sessions se terminent par leurs appels de get_auteurs: les autres
\* operations ne sont appelees qu'avant le premier d'entre eux, sur des livres
\* dont aucun accesseur de metadonnees n'a encore ete appele
Disponible == Construit /\ op.nom # "get_auteurs"

LivresClient ==
    Connus \cup
    {Livre(nouvel_id(Connus, p), p, depuis_mime_type(guess_type(p.nom))) :
        p \in {q \in CheminsClient : nouvel_id(Connus, q) <= MaxParChemin}}

\* biblio.ajouter(livre) / biblio.add(livre)
Ajouter(l) ==
    /\ classe = "bibli"
    /\ pc = "repos" /\ Disponible
    /\ LET r == ajouter(l, livres, disque, max_livres)
       IN  /\ livres' = r.livres
           /\ disque' = r.disque
           /\ erreur' = r.erreur
    /\ op' = Op("ajouter", NoLivre, FALSE)
    /\ Oubli
    /\ UNCHANGED << max_livres, v_scrap, pc >>
    /\ UNCHANGED meta

\* biblio.discard(livre, remove_from_disk=flag)
Discard(l, flag) ==
    /\ classe = "bibli"
    /\ pc = "repos" /\ Disponible
    /\ LET r == discard(l, flag, livres, disque)
       IN  /\ livres' = r.livres
           /\ disque' = r.disque
    /\ erreur' = None
    /\ op' = Op("discard", l, flag)
    /\ Oubli
    /\ UNCHANGED << max_livres, v_scrap, pc >>
    /\ UNCHANGED meta

\* biblio.get_auteurs(), premiere etape de rapport_auteurs
GetAuteurs ==
    /\ classe = "bibli"
    /\ pc = "repos" /\ Construit
    /\ op' = Op("get_auteurs", NoLivre, FALSE)
    /\ \E ordre \in Ordres(livres) :
         LET r == get_auteurs(ordre, disque, meta)
         IN  /\ retour' = Retour(r.auteurs, None, None)
             /\ erreur' = r.erreur
             /\ meta' = r.meta
    /\ a_faire' = <<>> /\ nb_emis' = 0 /\ statut_page' = None
    /\ nb_get' = Zero /\ hist_fup' = <<>> /\ sonde' = SondeInit
    /\ path_avant' = None /\ trace' = <<>> /\ reponse' = None
    /\ UNCHANGED << v_bibli, v_scrap, pc >>

\* Ajoute un appel a l'historique des appels consecutifs portant sur le meme
\* candidat (les deux derniers)
Pousser(h, appel) ==
    IF h = <<>> \/ h[Len(h)].cand # appel.cand THEN <<appel>> ELSE <<h[Len(h)], appel>>

\* Un appel find_unique_path(cand) sur le repertoire filenames; ecrit: le
\* chemin ecrit ensuite par write_bytes (NoChemin quand rien n'est ecrit)
Appel(cand, filenames, ecrit) ==
    [cand |-> cand, res |-> find_unique_path(cand, filenames), avant |-> filenames,
     ecrit |-> ecrit]

\* biblio.find_unique_path(cand)
FindUniquePath(cand) ==
    /\ classe = "bibli"
    /\ pc = "repos" /\ Disponible
    /\ IF est_repertoire(disque)
       THEN /\ hist_fup' = Pousser(hist_fup, Appel(cand, iterdir(disque), NoChemin))
            /\ erreur' = None
       ELSE /\ hist_fup' = <<>>
            /\ erreur' = "NotADirectoryError"
    /\ op' = Op("find_unique_path", NoLivre, FALSE)
    /\ a_faire' = <<>> /\ nb_emis' = 0 /\ statut_page' = None
    /\ nb_get' = Zero /\ sonde' = SondeInit /\ path_avant' = None
    /\ retour' = RetourInit /\ trace' = <<>> /\ reponse' = None
    /\ UNCHANGED << v_bibli, v_scrap, pc >>
    /\ UNCHANGED meta

\* get_mime_type_from_url(url) quand HEAD repond avec l'en-tete content_type.
\* Methode statique: elle ne touche pas a l'objet, et bibli_scrap en herite.
GetMimeTypeFromUrl(content_type) ==
    /\ classe = "bibli_scrap"
    /\ pc = "repos" /\ Disponible
    /\ sonde' = [fait |-> TRUE, content_type |-> content_type,
                 mime_type |-> get_mime_type_from_url(content_type)]
    /\ erreur' = None
    /\ op' = Op("get_mime_type_from_url", NoLivre, FALSE)
    /\ a_faire' = <<>> /\ nb_emis' = 0 /\ statut_page' = None
    /\ nb_get' = Zero /\ hist_fup' = <<>> /\ path_avant' = None
    /\ retour' = RetourInit /\ trace' = <<>> /\ reponse' = None
    /\ UNCHANGED << v_bibli, v_scrap, pc >>
    /\ UNCHANGED meta

\* Livre.depuis_mime_type(mime_type), methode de classe appelee directement
DepuisMimeType(mime_type) ==
    /\ classe = "bibli_scrap"
    /\ pc = "repos" /\ Disponible
    /\ LET cls == depuis_mime_type(mime_type)
       IN  /\ retour' = Retour([a \in {} |-> {}], mime_type, cls)
           /\ erreur' = IF cls = "NotSupportedMimeError" THEN cls ELSE None
    /\ op' = Op("depuis_mime_type", NoLivre, FALSE)
    /\ a_faire' = <<>> /\ nb_emis' = 0 /\ statut_page' = None
    /\ nb_get' = Zero /\ hist_fup' = <<>> /\ sonde' = SondeInit
    /\ path_avant' = None /\ trace' = <<>> /\ reponse' = None
    /\ UNCHANGED << v_bibli, v_scrap, pc >>
    /\ UNCHANGED meta

\* ------------------------------------------------------------ bibli.alimenter
Exception(statut) == IF statut = "timeout" THEN "Timeout" ELSE "ConnectionError"

\* Liens de la page que alimenter_fichier_url telechargerait
EstDocument(lien) ==
    check_http_url(lien) /\ get_mime_type_from_url(ContentType(lien)) # None

NbDocuments(u) ==
    LET l == liens_de(u, Ancres(u))
    IN  Cardinality({i \in 1..Len(l) : EstDocument(l[i])})

\* biblio.alimenter(u): premier next() du generateur livre_generator_from_url,
\* requests.get de la page puis check_response
Alimenter(u, statut) ==
    /\ classe = "bibli"
    /\ pc = "repos" /\ Disponible
    /\ Cardinality(iterdir(disque)) + NbDocuments(u) <= MaxFichiers
    /\ nb_get' = [Zero EXCEPT ![u] = 1]
    /\ nb_emis' = 0
    /\ statut_page' = statut
    /\ IF statut \in {"timeout", "connexion"}
       THEN /\ erreur' = Exception(statut)
            /\ pc' = "repos"
            /\ a_faire' = <<>>
       ELSE /\ erreur' = None
            /\ pc' = "alimenter"
            /\ a_faire' = IF statut = "ok" THEN liens_de(u, Ancres(u)) ELSE <<>>
    /\ op' = Op("alimenter", NoLivre, FALSE)
    /\ hist_fup' = <<>>
    /\ sonde' = SondeInit
    /\ path_avant' = None
    /\ retour' = RetourInit
    /\ trace' = <<>>
    /\ reponse' = None
    /\ UNCHANGED << v_bibli, v_scrap >>
    /\ UNCHANGED meta

\* Issues possibles de write_bytes: le fichier est ecrit; l'ouverture echoue
\* (rien n'est cree); l'ecriture echoue apres la creation du fichier
Ecritures == {"ok", "echec", "echec_partiel"}

\* Variante fautive: l'echec de l'ecriture est passe sous silence
write_bytes_muet(D, p, s_ecrit) ==
    [disque |-> IF s_ecrit = "echec" THEN D ELSE ecrire(D, p), erreur |-> None]

\* path_livre.write_bytes(response.content): resultat [disque, erreur]
write_bytes(D, p, s_ecrit) ==
    [disque |-> IF s_ecrit = "echec" THEN D ELSE ecrire(D, p),
     erreur |-> IF s_ecrit = "ok" THEN None ELSE "OSError"]

\* Un tour de la boucle for de alimenter: alimenter_fichier_url(lien)
\* s_head, s_get: issues des requetes HEAD et GET sur le lien;
\* s_ecrit: issue de write_bytes
AlimenterFichierUrl(s_head, s_get, s_ecrit) ==
    /\ pc = "alimenter"
    /\ a_faire # <<>>
    /\ op' = Op("alimenter_fichier_url", NoLivre, FALSE)
    /\ LET lien == Head(a_faire)
           mime_type == get_mime_type_from_url(ContentType(lien))
           cand == Chemin("bib", nom_fichier(lien))
           path_livre == find_unique_path(cand, iterdir(disque))
           w == write_bytes(disque, path_livre, s_ecrit)
           ecrit == w.disque
           livre == Livre(nouvel_id(livres, path_livre), path_livre,
                          depuis_mime_type(mime_type))
           r == ajouter(livre, livres, ecrit, max_livres)
           sonde_lien == [fait |-> TRUE, content_type |-> ContentType(lien),
                          mime_type |-> mime_type]
           head == Ev("HEAD", lien, NoChemin, NoLivre)
           get == Ev("GET", lien, NoChemin, NoLivre)
           ev_write == Ev(IF s_ecrit = "ok" THEN "write_bytes" ELSE "write_bytes: OSError",
                          NoUrl, path_livre, NoLivre)
       IN  IF ~check_http_url(lien)
           THEN /\ a_faire' = Tail(a_faire)
                /\ trace' = <<>>
                /\ reponse' = None
                /\ UNCHANGED << v_bibli, pc, erreur, hist_fup, nb_emis, sonde >>
           ELSE IF s_head # "ok"
           THEN /\ erreur' = Exception(s_head)
                /\ pc' = "repos"
                /\ a_faire' = <<>>
                /\ trace' = <<head>>
                /\ reponse' = None
                /\ UNCHANGED << v_bibli, hist_fup, nb_emis, sonde >>
           ELSE IF mime_type = None
           THEN /\ a_faire' = Tail(a_faire)
                /\ sonde' = sonde_lien
                /\ trace' = <<head>>
                /\ reponse' = None
                /\ UNCHANGED << v_bibli, pc, erreur, hist_fup, nb_emis >>
           ELSE IF s_get \in {"timeout", "connexion"} \/ ~est_repertoire(disque)
           THEN /\ erreur' = IF s_get \in {"timeout", "connexion"}
                             THEN Exception(s_get)
                             ELSE "NotADirectoryError"
                /\ pc' = "repos"
                /\ a_faire' = <<>>
                /\ sonde' = sonde_lien
                /\ trace' = <<head, get>>
                /\ reponse' = s_get
                /\ UNCHANGED << v_bibli, hist_fup, nb_emis >>
           ELSE IF w.erreur # None
           THEN /\ erreur' = w.erreur
                /\ pc' = "repos"
                /\ a_faire' = <<>>
                /\ sonde' = sonde_lien
                /\ trace' = <<head, get, ev_write>>
                /\ reponse' = s_get
                /\ hist_fup' = Pousser(hist_fup,
                                       Appel(cand, iterdir(disque),
                                             IF path_livre \in ecrit
                                             THEN path_livre ELSE NoChemin))
                /\ disque' = ecrit
                /\ UNCHANGED << livres, max_livres, nb_emis >>
           ELSE IF livre.type = "NotSupportedMimeError"
           THEN /\ erreur' = livre.type
                /\ pc' = "repos"
                /\ a_faire' = <<>>
                /\ sonde' = sonde_lien
                /\ trace' = <<head, get, ev_write>>
                /\ reponse' = s_get
                /\ hist_fup' = Pousser(hist_fup, Appel(cand, iterdir(disque), path_livre))
                /\ disque' = ecrit
                /\ UNCHANGED << livres, max_livres, nb_emis >>
           ELSE /\ a_faire' = Tail(a_faire)
                /\ sonde' = sonde_lien
                /\ trace' = <<head, get, ev_write, Ev("ajouter", NoUrl, NoChemin, livre)>>
                /\ reponse' = s_get
                /\ hist_fup' = Pousser(hist_fup, Appel(cand, iterdir(disque), path_livre))
                /\ disque' = r.disque
                /\ livres' = r.livres
                /\ nb_emis' = nb_emis + 1
                /\ UNCHANGED << max_livres, pc, erreur >>
    /\ UNCHANGED << v_scrap, nb_get, statut_page, path_avant, retour >>
    /\ UNCHANGED meta

\* Fin de la boucle for de alimenter: le generateur est epuise
AlimenterFin ==
    /\ pc = "alimenter"
    /\ a_faire = <<>>
    /\ pc' = "repos"
    /\ op' = Op("alimenter_fin", NoLivre, FALSE)
    /\ UNCHANGED << v_bibli, v_scrap, v_alim, erreur, hist_fup, nb_get, sonde, path_avant,
                    retour, trace, reponse >>
    /\ UNCHANGED meta

\* ------------------------------------------------------- bibli_scrap.parcourir
\* Appel de parcourir(): arrivee sur le test du while
Parcourir ==
    /\ classe = "bibli_scrap"
    /\ pc = "repos" /\ Disponible
    /\ pc' = "parcourir"
    /\ nb_get' = Zero
    /\ erreur' = None
    /\ op' = Op("parcourir", NoLivre, FALSE)
    /\ a_faire' = <<>> /\ nb_emis' = 0 /\ statut_page' = None
    /\ hist_fup' = <<>> /\ sonde' = SondeInit /\ path_avant' = None
    /\ retour' = RetourInit /\ trace' = <<>> /\ reponse' = None
    /\ UNCHANGED << v_bibli, v_scrap >>
    /\ UNCHANGED meta

\* Test du while: self.url and len(self.url_visiter) < self.profondeur
ParcourirTest ==
    /\ pc = "parcourir"
    /\ pc' = IF url # <<>> /\ Len(url_visiter) < profondeur
             THEN "parcourir_corps"
             ELSE "repos"
    /\ op' = Op("parcourir_test", NoLivre, FALSE)
    /\ UNCHANGED << v_bibli, v_scrap, v_alim, erreur, hist_fup, nb_get, sonde, path_avant,
                    retour, trace, reponse >>
    /\ UNCHANGED meta

\* Corps du while: try: get_lien_url(url[0]); url_visiter.append(url[0])
\*                 except AttributeError: print(...)
\* Dans scrap.py, self.get_Html n'existe pas (la methode s'appelle get_html):
\* AttributeError avant toute requete.  Dans Classes.py, get_Html rend None
\* si le statut n'est pas 200, d'ou AttributeError sur soup.find_all.
ParcourirCorps(statut) ==
    /\ pc = "parcourir_corps"
    /\ op' = Op("parcourir_corps", NoLivre, FALSE)
    /\ LET u == url[1]
       IN  IF variante = "scrap"
           THEN /\ pc' = "parcourir"
                /\ UNCHANGED << url, url_visiter, nb_get, erreur >>
           ELSE /\ nb_get' = [nb_get EXCEPT ![u] = Plus1(@)]
                /\ IF statut \in {"timeout", "connexion"}
                   THEN /\ erreur' = Exception(statut)
                        /\ pc' = "repos"
                        /\ UNCHANGED << url, url_visiter >>
                   ELSE /\ pc' = "parcourir"
                        /\ erreur' = erreur
                        /\ IF statut = "ok" /\ domaine_site(u) # None
                           THEN /\ url' = ajouter_liens(url, url_visiter, Ancres(u))
                                /\ url_visiter' = Append(url_visiter, u)
                           ELSE UNCHANGED << url, url_visiter >>
    /\ UNCHANGED << v_bibli, classe, profondeur, nbmax, variante, v_alim, hist_fup, sonde,
                    path_avant, retour, trace, reponse >>
    /\ UNCHANGED meta

\* bibli_scrap.telecharger(): i.get("href") sur une chaine leve AttributeError
\* (et, dans scrap.py, self.get_Html avant elle); rien n'est ecrit.
Telecharger(statut) ==
    /\ classe = "bibli_scrap"
    /\ pc = "repos" /\ Disponible
    /\ op' = Op("telecharger", NoLivre, FALSE)
    /\ a_faire' = <<>> /\ nb_emis' = 0 /\ statut_page' = None
    /\ hist_fup' = <<>> /\ sonde' = SondeInit /\ path_avant' = None
    /\ retour' = RetourInit /\ trace' = <<>> /\ reponse' = None
    /\ IF url_visiter = <<>>
       THEN /\ erreur' = None
            /\ nb_get' = Zero
       ELSE IF variante = "scrap"
       THEN /\ erreur' = "AttributeError"
            /\ nb_get' = Zero
       ELSE /\ nb_get' = [Zero EXCEPT ![url_visiter[1]] = 1]
            /\ erreur' = IF statut \in {"timeout", "connexion"}
                         THEN Exception(statut)
                         ELSE "AttributeError"
    /\ UNCHANGED << v_bibli, v_scrap, pc >>
    /\ UNCHANGED meta

\* ------------------------------------------------------------ specification
Next ==
    \/ \E l \in LivresClient : Ajouter(l)
    \/ \E l \in LivresClient, flag \in BOOLEAN : Discard(l, flag)
    \/ \E cand \in Candidats : FindUniquePath(cand)
    \/ GetAuteurs
    \/ \E ct \in TypesContenu : GetMimeTypeFromUrl(ct)
    \/ \E mime_type \in TypesContenu : DepuisMimeType(mime_type)
    \/ \E u \in {url[1], uC}, statut \in Statuts : Alimenter(u, statut)
    \/ \E s_head \in {"ok", "timeout", "connexion"}, s_get \in Statuts, s_ecrit \in Ecritures :
          AlimenterFichierUrl(s_head, s_get, s_ecrit)
    \/ AlimenterFin
    \/ Parcourir
    \/ ParcourirTest
    \/ \E statut \in StatutsSansDelai : ParcourirCorps(statut)
    \/ \E statut \in StatutsSansDelai : Telecharger(statut)

Spec == Init /\ [][Next]_vars

\* Le programme est sequentiel: un parcours commence continue de s'executer
SpecEquitable ==
    /\ Spec
    /\ WF_vars(ParcourirTest)
    /\ WF_vars(\E statut \in StatutsSansDelai : ParcourirCorps(statut))
    /\ WF_vars(\E s_head \in {"ok", "timeout", "connexion"}, s_get \in Statuts,
                  s_ecrit \in Ecritures :
                  AlimenterFichierUrl(s_head, s_get, s_ecrit))
    /\ WF_vars(AlimenterFin)

\* ================================================================ proprietes

\* C1 -- Tout parcours commence se termine: le programme revient au repos
\* apres un nombre fini de requetes, quel que soit le graphe de liens et meme
\* si une page ne repond pas.
Terminaison == (pc # "repos") ~> (pc = "repos")

\* C2 -- Pendant un parcours, le nombre de documents telecharges et remis a
\* la bibliotheque ne depasse jamais le maximum demande.
PlafondDocuments == nb_emis <= nbmax

\* C3 -- Aucun document n'est emis a plus de profondeur sauts de la page de
\* depart.  alimenter n'emet que des liens de la page de depart, a un saut.
BorneProfondeur == nb_emis > 0 => profondeur >= 1

\* C4 -- Pendant un parcours, aucune page n'est demandee (GET) plus d'une fois.
UnSeulGetParPage == \A p \in Pages : nb_get[p] <= 1

\* C5 -- La bibliotheque ne contient jamais plus de max_livres livres, apres
\* le balayage initial comme apres tout ajout.
BorneMaxLivres == classe = "bibli" => Cardinality(livres) <= max_livres

\* Le k-ieme nom de rechange de cand: stem_k, suffixe ajoute au stem d'origine
Rechange(cand, k) == with_stem(cand, Append(cand.nom.stem, ToString(k)))

\* C6 -- find_unique_path(cand) rend un chemin absent du repertoire au moment
\* de l'appel: cand s'il est libre, sinon stem_i pour le plus petit i >= 1
\* libre; le fichier qu'un telechargement ecrit ne remplace donc jamais un
\* fichier deja present.
CheminUnique ==
    \A n \in 1..Len(hist_fup) :
        LET a == hist_fup[n]
        IN  /\ a.res \notin a.avant
            /\ a.cand \notin a.avant => a.res = a.cand
            /\ a.cand \in a.avant =>
                 \E k \in 1..Cardinality(a.avant) :
                     /\ a.res = Rechange(a.cand, k)
                     /\ \A j \in 1..(k - 1) : Rechange(a.cand, j) \in a.avant
            /\ a.ecrit # NoChemin => a.ecrit = a.res /\ a.ecrit \notin a.avant

\* Temoin de C6: un telechargement ecrit sous un nom de rechange de rang >= 2
TemoinCheminUnique ==
    /\ hist_fup # <<>>
    /\ LET a == hist_fup[Len(hist_fup)]
       IN  /\ a.ecrit # NoChemin
           /\ a.cand \in a.avant
           /\ Rechange(a.cand, 1) \in a.avant
           /\ a.ecrit \in disque

DeuxAppels(h) == Len(h) = 2 /\ h[1].cand = h[2].cand

\* C7 (enonce d'origine) -- Deux appels consecutifs de find_unique_path avec
\* le meme candidat, sur un repertoire inchange, rendent deux chemins
\* distincts, le second portant un suffixe numerique.
DeuxAppelsRepertoireInchange ==
    (DeuxAppels(hist_fup) /\ hist_fup[1].avant = hist_fup[2].avant) =>
        /\ hist_fup[1].res # hist_fup[2].res
        /\ \E k \in 1..(Cardinality(hist_fup[2].avant) + 1) :
               hist_fup[2].res = Rechange(hist_fup[2].cand, k)

\* C7 (enonce corrige) -- Deux appels consecutifs de find_unique_path avec le
\* meme candidat rendent deux chemins distincts, le second portant un suffixe
\* numerique, des lors que le chemin rendu par le premier appel a ete cree
\* dans le repertoire avant le second (ce que fait alimenter_fichier_url).
DeuxAppelsApresEcriture ==
    (DeuxAppels(hist_fup) /\ hist_fup[2].avant = hist_fup[1].avant \cup {hist_fup[1].res}) =>
        /\ hist_fup[1].res # hist_fup[2].res
        /\ \E k \in 1..(Cardinality(hist_fup[2].avant) + 1) :
               hist_fup[2].res = Rechange(hist_fup[2].cand, k)

\* Temoin de C7: le premier appel a rendu le candidat, ecrit avant le second
TemoinDeuxAppels ==
    /\ DeuxAppels(hist_fup)
    /\ hist_fup[1].res = hist_fup[1].cand
    /\ hist_fup[1].ecrit = hist_fup[1].res
    /\ hist_fup[2].avant = hist_fup[1].avant \cup {hist_fup[1].res}

\* Le genre obtenu pour la derniere interrogation: la classe enregistree, ou
\* Unknown quand get_mime_type_from_url rend None
GenreSonde ==
    IF sonde.mime_type = None THEN "Unknown" ELSE depuis_mime_type(sonde.mime_type)

\* C8 -- Le classement par Content-Type est une simple consultation du
\* registre: application/pdf donne Pdf, application/epub+zip donne Epub, et
\* tout en-tete non enregistre ou absent donne Unknown (None), sans exception.
Classement ==
    sonde.fait =>
        /\ sonde.content_type = "application/pdf" => GenreSonde = "Pdf"
        /\ sonde.content_type = "application/epub+zip" => GenreSonde = "Epub"
        /\ sonde.content_type \notin {"application/pdf", "application/epub+zip"} =>
               GenreSonde = "Unknown"
        /\ op.nom = "get_mime_type_from_url" => erreur = None

\* Temoin de C8: pendant alimenter, un lien au Content-Type non enregistre
TemoinClassement ==
    /\ sonde.fait
    /\ op.nom = "alimenter_fichier_url"
    /\ sonde.content_type = "application/pdf; charset=binary"

\* C9 -- discard(livre, remove_from_disk) retire le livre de la bibliotheque;
\* le fichier n'est supprime que si remove_from_disk est vrai et qu'il existe;
\* pour un livre non membre rien ne change, ni la bibliotheque ni le disque,
\* et un second discard identique ne change plus rien.
Retrait ==
    [][ /\ op'.nom = "discard" =>
            LET l == op'.livre
                f == op'.flag
            IN  /\ livres' = livres \ {l}
                /\ disque' \subseteq disque
                /\ disque' # disque => f /\ l \in livres /\ disque \ disque' = {l.ressource}
                /\ (f /\ l \in livres) => l.ressource \notin disque'
                /\ l \notin livres => livres' = livres /\ disque' = disque
        /\ (op.nom = "discard" /\ op' = op) => livres' = livres /\ disque' = disque
      ]_vars

\* Temoin de C9: un discard avec suppression a retire un fichier du repertoire
TemoinRetrait ==
    /\ op.nom = "discard"
    /\ op.flag
    /\ op.livre.ressource = Chemin("bib", d_pdf)
    /\ op.livre.ressource \notin disque
    /\ op.livre \notin livres

\* C10 -- Un echec du GET de la page (statut non 2xx, delai depasse, erreur
\* de connexion) est une impasse: aucune exception ne sort de alimenter.
EchecPageSansException ==
    (op.nom = "alimenter" /\ statut_page # "ok") => erreur = None

\* C11 -- Ouvrir une bibliotheque sur un chemin absent cree le repertoire;
\* sur un chemin qui existe sans etre un repertoire, l'ouverture echoue par
\* une erreur: on n'obtient jamais une bibliotheque adossee a un fichier.
OuvertureSure ==
    (classe = "bibli" /\ op.nom = "init") =>
        /\ path_avant = "absent" => (est_repertoire(disque) /\ erreur = None)
        /\ path_avant = "fichier" => erreur # None
        /\ erreur = None => est_repertoire(disque)

\* C12 -- Dans tout etat atteint par les operations de la bibliotheque
\* (balayage initial, ajouter, alimenter, discard), le fichier de chaque livre
\* membre existe sur le disque.
MembresSurDisque == \A l \in livres : l.ressource \in disque

\* C13 -- La bibliotheque contient au plus un livre par chemin, meme apres
\* l'ajout de deux objets Livre construits sur le meme chemin.
UnLivreParChemin == \A l1, l2 \in livres : l1.ressource = l2.ressource => l1 = l2

\* Ensemble des elements d'une liste
Elements(liste) == {liste[i] : i \in 1..Len(liste)}

\* C14 -- Le regroupement rendu par get_auteurs: un livre d est dans le
\* groupe de l'auteur a si et seulement si a est un auteur de d; un livre a N
\* auteurs distincts figure dans exactement N groupes, aucun groupe n'est
\* vide et un livre sans auteur ne figure dans aucun groupe.
Groupement ==
    (op.nom = "get_auteurs" /\ erreur = None) =>
        /\ \A d \in livres, a \in (DOMAIN retour.auteurs) \cup {"Hugo", "Zola"} :
               (a \in DOMAIN retour.auteurs /\ d \in retour.auteurs[a]) <=> a \in Elements(auteurs(d))
        /\ \A a \in DOMAIN retour.auteurs : retour.auteurs[a] # {} /\ retour.auteurs[a] \subseteq livres
        /\ \A d \in livres :
               Cardinality({a \in DOMAIN retour.auteurs : d \in retour.auteurs[a]})
                   = Cardinality(Elements(auteurs(d)))

\* Temoin de C14: un rapport sur une bibliotheque qui contient un livre a deux
\* auteurs et un livre sans auteur
TemoinGroupement ==
    /\ op.nom = "get_auteurs"
    /\ erreur = None
    /\ \E d1, d2 \in livres :
          /\ Cardinality(Elements(auteurs(d1))) = 2
          /\ auteurs(d2) = <<>>
    /\ Cardinality(DOMAIN retour.auteurs) = 2

\* C15 -- NotSupportedMimeError est levee exactement quand depuis_mime_type
\* est appelee pour un type MIME sans classe enregistree (par l'appelant, ou
\* par le balayage du constructeur pour le type devine d'un fichier);
\* l'interrogation du type pendant alimenter ne la leve jamais (elle rend
\* None), si bien qu'un alimenter sur des liens de types non enregistres se
\* termine sans elle.
ErreurMime ==
    /\ op.nom = "depuis_mime_type" =>
          (erreur = "NotSupportedMimeError" <=> retour.mime_type \notin DOMAIN TYPES_MIME)
    /\ erreur = "NotSupportedMimeError" =>
          \/ op.nom = "depuis_mime_type"
          \/ /\ op.nom = "init"
             /\ \E f \in iterdir(disque) :
                   guess_type(f.nom) \notin DOMAIN TYPES_MIME \cup {None}
    /\ op.nom \in {"alimenter", "alimenter_fichier_url", "alimenter_fin"} =>
          erreur # "NotSupportedMimeError"

\* Temoin de C15: depuis_mime_type("text/html") leve NotSupportedMimeError
TemoinErreurMime ==
    /\ op.nom = "depuis_mime_type"
    /\ retour.mime_type = "text/html"
    /\ erreur = "NotSupportedMimeError"

\* Evenements de nom ev dans une trace
Rangs(t, ev) == {i \in 1..Len(t) : t[i].ev = ev}

\* C16 -- Un echec de write_bytes pendant alimenter_fichier_url interrompt
\* alimenter: l'erreur sort de l'appel, l'ecriture n'est pas retentee, et
\* aucun livre n'est ajoute pour ce telechargement.
EchecEcriture ==
    [][ (pc = "alimenter" /\ Rangs(trace', "write_bytes: OSError") # {}) =>
            /\ erreur' = "OSError"
            /\ pc' = "repos"
            /\ a_faire' = <<>>
            /\ livres' = livres
            /\ nb_emis' = nb_emis
            /\ Cardinality(Rangs(trace', "write_bytes: OSError")) = 1
            /\ Rangs(trace', "write_bytes") = {}
            /\ Rangs(trace', "ajouter") = {} ]_vars

\* Temoin de C16: alimenter interrompu par un echec d'ecriture apres un
\* premier telechargement reussi
TemoinEchecEcriture ==
    /\ op.nom = "alimenter_fichier_url"
    /\ Rangs(trace, "write_bytes: OSError") # {}
    /\ erreur = "OSError"
    /\ nb_emis = 1

\* Ancres de la page u qui portent un attribut href
AvecHref(u) == {i \in 1..Len(Ancres(u)) : Ancres(u)[i].a_href}

\* C17 -- Les ancres sans href et les liens dont l'URL resolue n'est ni http
\* ni https (mailto:, javascript:) sont ignores: ni HEAD ni GET pour un tel
\* lien, et ni la bibliotheque ni le repertoire ne changent.
LiensIgnores ==
    [][ /\ (pc = "alimenter" /\ a_faire # <<>>
              /\ Head(a_faire).scheme \in {"mailto", "javascript"}) =>
                /\ trace' = <<>>
                /\ livres' = livres
                /\ disque' = disque
                /\ erreur' = erreur
                /\ a_faire' = Tail(a_faire)
        /\ (pc = "repos" /\ pc' = "alimenter" /\ statut_page' = "ok") =>
                \E u \in Pages :
                    /\ nb_get'[u] = 1
                    /\ Len(a_faire') = Cardinality(AvecHref(u)) ]_vars

\* Temoin de C17: le lien mailto: de la page vient d'etre ignore, apres un
\* premier telechargement
TemoinLiensIgnores ==
    /\ pc = "alimenter"
    /\ op.nom = "alimenter_fichier_url"
    /\ trace = <<>>
    /\ nb_emis = 1
    /\ a_faire # <<>>
    /\ Head(a_faire) = uJ

\* Liens de la page u, sous forme d'ensemble
Liens(u) == Elements(liens_de(u, Ancres(u)))

\* Pages HTML situees a n sauts au plus de la page de depart
RECURSIVE PagesProches(_, _)
PagesProches(depart, n) ==
    IF n = 0
    THEN {depart}
    ELSE LET P == PagesProches(depart, n - 1)
         IN  P \cup {l \in UNION {Liens(q) : q \in P} :
                        check_http_url(l) /\ ContentType(l) = "text/html"}

\* Documents dont le chemin de decouverte le plus court depuis la page de
\* depart compte au plus n sauts (un document lie par la page de depart: 1)
DocumentsProches(depart, n) ==
    IF n = 0
    THEN {}
    ELSE {l \in UNION {Liens(q) : q \in PagesProches(depart, n - 1)} : EstDocument(l)}

\* C18 -- Le parcours explore les liens recursivement: quand aucune requete
\* n'echoue et que le plafond de documents n'est pas atteint, tout document
\* lie par une page situee a profondeur sauts au plus de la page de depart
\* est telecharge, et pas seulement ceux que lie la page de depart.
ExplorationRecursive ==
    (op.nom = "alimenter_fin" /\ erreur = None /\ statut_page = "ok" /\ nb_emis < nbmax) =>
        \A u \in Pages :
            nb_get[u] = 1 => nb_emis >= Cardinality(DocumentsProches(u, profondeur))

\* Dernier composant du chemin d'une URL
DernierComposant(u) == u.chemin[Len(u.chemin)]

\* C19 -- Pour tout lien accepte comme document, alimenter_fichier_url fait,
\* dans cet ordre: HEAD, GET du contenu, ecriture sous un chemin unique dont
\* le nom derive du dernier composant du chemin de l'URL, puis ajout a la
\* bibliotheque d'un Livre du type trouve par HEAD et dont la ressource est
\* le chemin ecrit; un lien dont le type est inconnu (None) ne provoque ni
\* GET, ni ecriture, ni ajout.
Pipeline ==
    trace # <<>> =>
        LET u == trace[1].url
            connu == ContentType(u) \in DOMAIN TYPES_MIME
            cand == Chemin("bib", DernierComposant(u))
        IN  /\ Len(trace) <= 4
            /\ trace[1] = Ev("HEAD", u, NoChemin, NoLivre)
            /\ ~connu => Len(trace) = 1
            /\ Len(trace) >= 2 => trace[2] = Ev("GET", u, NoChemin, NoLivre)
            /\ Len(trace) >= 3 =>
                  /\ trace[3].ev \in {"write_bytes", "write_bytes: OSError"}
                  /\ \/ trace[3].path = cand
                     \/ \E k \in 1..MaxFichiers : trace[3].path = Rechange(cand, k)
                  /\ trace[3].ev = "write_bytes" => trace[3].path \in disque
            /\ Len(trace) = 4 =>
                  /\ trace[3].ev = "write_bytes"
                  /\ trace[4].ev = "ajouter"
                  /\ trace[4].livre.ressource = trace[3].path
                  /\ trace[4].livre.type = TYPES_MIME[ContentType(u)]
                  /\ trace[4].livre \in livres \/ Cardinality(livres) > max_livres
            /\ (connu /\ erreur = None) => Len(trace) = 4

\* Temoin de C19: un document telecharge, ecrit sous un nom de rechange et
\* ajoute a la bibliotheque
TemoinPipeline ==
    /\ Len(trace) = 4
    /\ trace[3].path # Chemin("bib", DernierComposant(trace[1].url))
    /\ trace[4].livre \in livres
    /\ Len(trace[1].url.chemin) = 2

\* C20 -- Une URL n'est mise en attente que si elle n'est ni en attente ni
\* deja visitee (comparaison des chaines exactes): la liste d'attente url ne
\* contient jamais de doublon ni d'URL deja visitee.
AttenteSansVisitee ==
    /\ \A i, j \in 1..Len(url) : url[i] = url[j] => i = j
    /\ \A i \in 1..Len(url) : url[i] \notin Elements(url_visiter)

\* C21 -- Tout fichier qu'un telechargement a ecrit dans le repertoire est le
\* fichier d'un livre membre: la bibliotheque n'ecrit jamais un fichier pour
\* refuser ensuite de l'inserer (par exemple parce que max_livres est atteint).
FichierEcritMembre ==
    (op.nom = "alimenter_fichier_url" /\ Rangs(trace, "write_bytes") # {}) =>
        \E l \in livres : l.ressource = trace[3].path

\* C22 -- Un telechargement dont le GET recoit un statut d'erreur (non 2xx) ne
\* cree aucun fichier dans le repertoire et n'ajoute aucun livre: seul le corps
\* d'une reponse reussie est conserve comme livre.
GetEchoueSansEffet ==
    (op.nom = "alimenter_fichier_url" /\ reponse = "http_error") =>
        /\ Rangs(trace, "write_bytes") = {}
        /\ Rangs(trace, "ajouter") = {}

\* C23 -- Ouvrir une bibliotheque sur un repertoire existant reussit quels que
\* soient les fichiers qu'il contient: les fichiers dont le type devine est
\* enregistre (PDF, EPUB) deviennent des livres, ceux de tout autre type
\* (.txt, .html, .png) sont sautes sans exception.
OuvertureToutContenu ==
    (classe = "bibli" /\ op.nom = "init" /\ path_avant = "repertoire") =>
        /\ erreur = None
        /\ \A l \in livres : guess_type(l.ressource.nom) \in DOMAIN TYPES_MIME

\* C24 -- Le chargement paresseux des metadonnees d'un livre a deux etats (non
\* charge, charge): dans tout etat ou le drapeau already_init est leve, les
\* metadonnees qu'il garde sont chargees, et un accesseur appele apres un
\* chargement manque signale de nouveau l'echec du chargement au lieu de lire
\* un attribut jamais defini.
ChargementParesseux ==
    /\ meta.already_init \subseteq meta.metadata
    /\ op.nom = "get_auteurs" => erreur # "AttributeError"

====
